---- MODULE Spec2Model ----
(***************************************************************************)
(* The Gmail Pub/Sub webhook consumer of src/index.js (its match list from  *)
(* the revision src/unnamed/part_000 of the handler): the credential       *)
(* store (currentAccessToken, currentRefreshToken), refreshAccessToken,    *)
(* callGmailApi and the POST /webhook/gmail handler with its cursor table  *)
(* lastProcessedHistoryIdByUser.                                           *)
(*                                                                         *)
(* Node runs one handler at a time and switches handlers only where a      *)
(* handler awaits the network (axios.post in refreshAccessToken, axios in  *)
(* callGmailApi).  An action of this model is therefore one run of a       *)
(* handler from a delivery (the webhook request, a token response, a data  *)
(* response) to its next network await or to its end.  The code between    *)
(* two awaits is written as operators on a record s of the whole program   *)
(* state; an action applies them to the current state and stores the       *)
(* result.                                                                 *)
(*                                                                         *)
(* Three specifications share the actions:                                 *)
(*   Spec       overlapping deliveries, the mailbox changes without added  *)
(*              messages (the calls and the cursor table under races);     *)
(*   SpecFrame  as Spec, with notifications about two mailboxes;           *)
(*   SpecBatch  deliveries one at a time, every change adds a message and  *)
(*              a response may list it twice (the per-message loop);       *)
(*   SpecLive   SpecBatch where every network call is answered in the end; *)
(*   SpecMatch  as SpecBatch, with messages that differ in text and labels *)
(*              (the match list);                                          *)
(*   SpecBody   findPlainTextPart applied to any bounded body-part tree;   *)
(*   SpecFetch  a message of the mailbox fetched with the handler's fields *)
(*              parameter and searched by findPlainTextPart;               *)
(*   SpecMarker the marker extraction applied to any bounded text.         *)
(***************************************************************************)
EXTENDS Integers, Sequences, FiniteSets, TLC

\* Bounds of the model.
MaxTok == 2         \* grants the identity provider issues in one run
MaxHistory == 2     \* highest historyId the mailbox service reaches
MaxParts == 2       \* parts of a multipart body part
MaxRun == 2         \* separators in a run after the candidate

\* null / undefined of the source (falsy): no token, no cursor, no value.
NULL == 0
\* HTTP status of an authorization failure.
Unauthorized == 401

Handlers == {"h1", "h2"}          \* overlapping webhook deliveries
Mailboxes == {"a", "b"}           \* emailAddress values
\* The handlers are alike: a delivery takes the first one not yet used.
Earlier == [h \in Handlers |-> IF h = "h2" THEN {"h1"} ELSE {}]
Connected == {"a"}                \* the mailbox of the OAuth-connected account
Statuses == {200, Unauthorized, 500}  \* 500: any failure that is not a 401
\* What a delivery's envelope holds: a notification; no message.data; data
\* that is not JSON; a JSON object without emailAddress; the JSON value null,
\* which the destructuring of line 198 throws on, outside every try.
Envelopes == {"ok", "nodata", "malformed", "noemail", "null"}
\* A history.list response lists every added message in one history entry, or
\* every one in two.
Copies == {1, 2}

VARIABLES
    currentAccessToken,            \* NULL or a token 1..MaxTok
    currentRefreshToken,           \* NULL or a token 1..MaxTok
    lastProcessedHistoryIdByUser,  \* [Mailboxes -> 0..MaxHistory], NULL = no entry
    hs,                            \* per handler: its position and locals
    serverHistoryId,               \* the service's current historyId per mailbox
    nextTok,                       \* number of the provider's next grant
    callLog,                       \* history: the callGmailApi calls of each handler
    lastRun,                       \* history: the events of the latest step
    rejected,                      \* history: stored access tokens the service answered 401 to
    payload,                       \* fullMessageDetails.payload, a body-part tree
    plainTextBody,                 \* what findPlainTextPart returned for it
    visited,                       \* history: the parts findPlainTextPart was called on
    message,                       \* the body-part tree of a message as the mailbox holds it
    marker                         \* <<what the marker extraction made of plainTextBody>>, <<>> before it

vars == <<currentAccessToken, currentRefreshToken, lastProcessedHistoryIdByUser,
          hs, serverHistoryId, nextTok, callLog, lastRun, rejected,
          payload, plainTextBody, visited, message, marker>>

\* The program state as one record.
Cur ==
    [access |-> currentAccessToken, refresh |-> currentRefreshToken,
     cursors |-> lastProcessedHistoryIdByUser, hs |-> hs,
     server |-> serverHistoryId, nextTok |-> nextTok,
     log |-> callLog, run |-> lastRun, rejected |-> rejected]

Pending(c) == c.result = "pending"

\* A handler slot with no delivery in it.  History only: resolved counts the
\* message calls the handler has begun; again is, for the handler of a
\* notification that another handler had handled to the end before the
\* delivery arrived, the end cursor of that first run; overtaken is, while the
\* handler's token exchange is in flight, the access token that the refresh of
\* another handler has stored since the exchange was posted.
IdleHandler ==
    [pc |-> "idle", acked |-> FALSE, emailAddress |-> "", notifiedHistoryId |-> NULL,
     startHistoryId |-> NULL, newHistoryIdToStore |-> NULL, pending |-> <<>>,
     kind |-> "none", target |-> NULL, retryCount |-> 0, ctx |-> "none",
     reqToken |-> NULL, served |-> NULL, copies |-> NULL, resolved |-> 0,
     again |-> NULL, outcome |-> "none", matchedEmailsForLog |-> <<>>,
     overtaken |-> NULL]

\* History only: what is remembered of a handler that has ended is dropped
\* once every delivery has arrived.
Forget(l) ==
    IF l.pc = "done" THEN [IdleHandler EXCEPT !.pc = "done", !.acked = l.acked] ELSE l

\* The state a step starts from.  History only: callLog keeps the calls that
\* are in progress during the latest step, so the calls that ended in an
\* earlier step leave it here; every call is in callLog, complete, in the state
\* that follows its end.  A rejected token that has left the credential store
\* never comes back (every grant's tokens are new) and is forgotten.
Resume ==
    [Cur EXCEPT !.log = [h \in Handlers |-> SelectSeq(@[h], Pending)],
                !.run = <<>>,
                !.rejected = @ \cap {currentAccessToken},
                !.hs = IF \E g \in Handlers : hs[g].pc = "idle"
                          THEN @
                          ELSE [h \in Handlers |-> Forget(@[h])]]

Set(s) ==
    /\ currentAccessToken' = s.access
    /\ currentRefreshToken' = s.refresh
    /\ lastProcessedHistoryIdByUser' = s.cursors
    /\ hs' = s.hs
    /\ serverHistoryId' = s.server
    /\ nextTok' = s.nextTok
    /\ callLog' = s.log
    /\ lastRun' = s.run
    /\ rejected' = s.rejected
    /\ UNCHANGED <<payload, plainTextBody, visited, message, marker>>

\* History only: an event of this step as lastRun keeps it: with the handler
\* it belongs to, with the credential store (a, r), the cursor table (c) and
\* the handler's match list (m) as they are at that moment, and with whether
\* the stored access token is one the service has already answered 401 to.
Event(s, h, e, v) ==
    [e |-> e, v |-> v, h |-> h, a |-> s.access, r |-> s.refresh, c |-> s.cursors,
     stale |-> s.access \in s.rejected, m |-> s.hs[h].matchedEmailsForLog]

\* History only: event e with value v joins the trace of h's current call
\* and the events of this step.
Log(s, h, e, v) ==
    [s EXCEPT !.log[h][Len(s.log[h])].trace = Append(@, [e |-> e, v |-> v]),
              !.run = Append(@, Event(s, h, e, v))]

\* History only: an event of this step that belongs to no callGmailApi call.
Note(s, h, e, v) ==
    [s EXCEPT !.run = Append(@, Event(s, h, e, v))]

EndCall(s, h, result) ==
    [s EXCEPT !.log[h][Len(s.log[h])].result = result]

\* The handler returns (any of its return points) or throws out of its body;
\* the locals of the call in progress die with it.  A handler whose
\* history.list call returned is remembered with the response it got.
Finish(s, h, outcome) ==
    Note([s EXCEPT !.hs[h] = [IdleHandler EXCEPT
                            !.pc = "done", !.acked = s.hs[h].acked,
                            !.outcome = outcome,
                            !.emailAddress = s.hs[h].emailAddress,
                            !.notifiedHistoryId = s.hs[h].notifiedHistoryId,
                            !.startHistoryId = s.hs[h].startHistoryId,
                            !.newHistoryIdToStore = s.hs[h].newHistoryIdToStore,
                            !.copies = IF s.hs[h].newHistoryIdToStore # NULL
                                          THEN s.hs[h].copies ELSE NULL,
                            !.resolved = s.hs[h].resolved,
                            !.again = s.hs[h].again]],
         h, "end", outcome)

\* Mutant: the cursor of the notification is stored.
CommitNotified(s, h) ==
    LET l == s.hs[h] IN
    Finish(Note([s EXCEPT !.cursors[l.emailAddress] = l.notifiedHistoryId],
                h, "commit", l.notifiedHistoryId),
           h, "finished")

\* Mutant: the cursor is stored only when the delta held changes.
CommitOnlyChanges(s, h) ==
    LET l == s.hs[h] IN
    Finish(IF l.newHistoryIdToStore # NULL /\ l.startHistoryId < l.newHistoryIdToStore
              THEN Note([s EXCEPT !.cursors[l.emailAddress] = l.newHistoryIdToStore],
                        h, "commit", l.newHistoryIdToStore)
              ELSE s,
           h, "finished")

\* Mutant: a delta without changes stores the cursor of the notification.
CommitNotifiedWhenEmpty(s, h) ==
    LET l == s.hs[h]
        v == IF l.startHistoryId < l.newHistoryIdToStore
                THEN l.newHistoryIdToStore ELSE l.notifiedHistoryId
    IN  Finish(Note([s EXCEPT !.cursors[l.emailAddress] = v], h, "commit", v),
               h, "finished")

\* Mutant: the end cursor is stored for every mailbox.
CommitEveryMailbox(s, h) ==
    LET l == s.hs[h] IN
    Finish(Note([s EXCEPT !.cursors = [m \in Mailboxes |-> l.newHistoryIdToStore]],
                h, "commit", l.newHistoryIdToStore),
           h, "finished")

\* if (newHistoryIdToStore) lastProcessedHistoryIdByUser[emailAddress] = ...
Commit(s, h) ==
    LET l == s.hs[h] IN
    Finish(IF l.newHistoryIdToStore # NULL
              THEN Note([s EXCEPT !.cursors[l.emailAddress] = l.newHistoryIdToStore],
                        h, "commit", l.newHistoryIdToStore)
              ELSE s,
           h, "finished")

\* Mutant: a second retry is allowed.
ShouldRetryTwice(status, retryCount) ==
    status = Unauthorized /\ retryCount < 2

\* Mutant: any failed first attempt is refreshed and retried.
ShouldRetryAnyFailure(status, retryCount) ==
    retryCount < 1

\* error.response.status === 401 && retryCount < 1
ShouldRetry(status, retryCount) ==
    status = Unauthorized /\ retryCount < 1

\* Mutant: a failed refresh drops the access token only.
RefreshFailureKeepsRefresh(s) ==
    [s EXCEPT !.access = NULL]

\* Mutant: a failed refresh drops the refresh token only.
RefreshFailureKeepsAccess(s) ==
    [s EXCEPT !.refresh = NULL]

\* The catch block of refreshAccessToken: both credentials are dropped.
RefreshFailureStore(s) ==
    [s EXCEPT !.access = NULL, !.refresh = NULL]

\* Mutant: the stored refresh token is overwritten by whatever the response
\* holds, also by nothing.
RefreshSuccessAlwaysReplaces(s, access_token, refresh_token) ==
    [s EXCEPT !.access = access_token, !.refresh = refresh_token]

\* The success path of refreshAccessToken: the access token is stored, the
\* refresh token only when the response carries one.
RefreshSuccessStore(s, access_token, refresh_token) ==
    [s EXCEPT !.access = access_token,
              !.refresh = IF refresh_token # NULL THEN refresh_token ELSE @]

\* History only: the refresh of h has stored access_token; every other
\* handler whose token exchange is in flight has been overtaken by it.
Overtake(s, h, access_token) ==
    [s EXCEPT !.hs = [g \in Handlers |->
                         IF g # h /\ @[g].pc = "awaitToken"
                            THEN [@[g] EXCEPT !.overtaken = access_token]
                            ELSE @[g]]]

\* Mutant: notifiedHistoryId || lastProcessedHistoryIdByUser[emailAddress]
StartHistoryIdNotifiedFirst(stored, notified) ==
    IF notified # NULL THEN notified ELSE stored

\* lastProcessedHistoryIdByUser[emailAddress] || notifiedHistoryId
StartHistoryId(stored, notified) ==
    IF stored # NULL THEN stored ELSE notified

\* historyData.history as the service builds it: the changes after
\* startHistoryId in order, one added message (named by its historyId) per
\* change, each change listed in `copies` history entries.  messagesAdded
\* holds the message.id of each of its containers, NULL for a container
\* without one: the second entry of a change holds such a container before
\* the message.  No change, or no change that added a message (copies = 0):
\* no history (the field is absent).
RECURSIVE History(_, _, _)
History(from, to, copies) ==
    IF from >= to
        THEN <<>>
        ELSE [i \in 1..copies |->
                 [messagesAdded |-> IF i = 1 THEN <<from + 1>> ELSE <<NULL, from + 1>>]]
             \o History(from + 1, to, copies)

\* Mutant: a message id is resolved once, however often the response lists it.
RECURSIVE AddedMessagesOnce(_)
AddedMessagesOnce(history) ==
    IF history = <<>>
        THEN <<>>
        ELSE LET rest == AddedMessagesOnce(SubSeq(history, 1, Len(history) - 1))
                 seen == {rest[i] : i \in DOMAIN rest}
             IN  rest \o SelectSeq(history[Len(history)].messagesAdded,
                                   LAMBDA id : id # NULL /\ id \notin seen)

\* The ids of historyData.history[..].messagesAdded[..].message, in the order
\* of the response, as the two nested loops come to them; a container without
\* message.id is passed over (line 227).
RECURSIVE AddedMessages(_)
AddedMessages(history) ==
    IF history = <<>>
        THEN <<>>
        ELSE SelectSeq(Head(history).messagesAdded, LAMBDA id : id # NULL)
             \o AddedMessages(Tail(history))

RECURSIVE CallGmailApi(_, _)

\* A fresh callGmailApi(url, config) with retryCount defaulted to 0.
StartCall(s, h, kind, target) ==
    CallGmailApi(
        Log([s EXCEPT !.hs[h].kind = kind, !.hs[h].target = target,
                      !.hs[h].retryCount = 0,
                      !.log[h] = Append(@, [kind |-> kind, target |-> target,
                                            trace |-> <<>>, result |-> "pending"])],
            h, "call", NULL),
        h)

\* The per-message loop: the next added message is resolved, or the loop is
\* over, the match list is reported (part_000, lines 186-195) and the cursor
\* is committed.
NextMessage(s, h) ==
    IF s.hs[h].pending = <<>>
        THEN Commit(Note(s, h, "report", s.hs[h].matchedEmailsForLog), h)
        ELSE StartCall([s EXCEPT !.hs[h].pending = Tail(@),
                                 !.hs[h].resolved = @ + 1],
                       h, "message", Head(s.hs[h].pending))

\* Mutant: any error of callGmailApi reaches catch (apiError).
ThrowAborts(s, h, v) ==
    Finish(EndCall(Log(s, h, "throw", v), h,
                   IF v = NULL THEN "nocred" ELSE "error"),
           h, "aborted")

\* Mutant: a failed history.list call moves the cursor to the notified one.
ThrowAdvances(s, h, v) ==
    LET s1 == EndCall(Log(s, h, "throw", v), h,
                      IF v = NULL THEN "nocred" ELSE "error") IN
    IF s.hs[h].kind = "history"
        THEN Finish([s1 EXCEPT !.cursors[s.hs[h].emailAddress] =
                                   s.hs[h].notifiedHistoryId],
                    h, "aborted")
        ELSE NextMessage(s1, h)

\* Mutant: an error in the per-message loop leaves the loop.
ThrowSkipsRest(s, h, v) ==
    LET s1 == EndCall(Log(s, h, "throw", v), h,
                      IF v = NULL THEN "nocred" ELSE "error") IN
    IF s.hs[h].kind = "history"
        THEN Finish(s1, h, "aborted")
        ELSE Commit([s1 EXCEPT !.hs[h].pending = <<>>], h)

\* Mutant: a message call that the service failed is made again.
ThrowRetriesMessage(s, h, v) ==
    LET s1 == EndCall(Log(s, h, "throw", v), h,
                      IF v = NULL THEN "nocred" ELSE "error") IN
    IF s.hs[h].kind = "history"
        THEN Finish(s1, h, "aborted")
        ELSE IF v = NULL
                THEN NextMessage(s1, h)
                ELSE StartCall(s1, h, "message", s.hs[h].target)

\* callGmailApi throws; v is the status of the re-thrown error, NULL for the
\* "Failed to obtain access token" error.  The history call's error reaches
\* catch (apiError), a message call's error catch (msgError).
Throw(s, h, v) ==
    LET s1 == EndCall(Log(s, h, "throw", v), h,
                      IF v = NULL THEN "nocred" ELSE "error") IN
    IF s.hs[h].kind = "history"
        THEN Finish(s1, h, "aborted")
        ELSE NextMessage(s1, h)

\* Mutant: the retry reuses the Authorization header of the first attempt.
IssueRequestStale(s, h) ==
    LET tok == IF s.hs[h].retryCount > 0 THEN s.hs[h].reqToken ELSE s.access IN
    Log([s EXCEPT !.hs[h].pc = "awaitData", !.hs[h].reqToken = tok,
                  !.hs[h].served = NULL],
        h, "req", tok)

\* requestConfig is built with the stored access token and axios is awaited.
IssueRequest(s, h) ==
    Log([s EXCEPT !.hs[h].pc = "awaitData", !.hs[h].reqToken = s.access,
                  !.hs[h].served = NULL],
        h, "req", s.access)

\* The code after each `await refreshAccessToken()`.
AfterRefresh(s, h, ctx) ==
    IF ctx = "entry"
        THEN IF s.access = NULL THEN Throw(s, h, NULL) ELSE IssueRequest(s, h)
        ELSE IF s.access # NULL
                THEN CallGmailApi([s EXCEPT !.hs[h].retryCount = @ + 1], h)
                ELSE Throw(s, h, Unauthorized)

\* refreshAccessToken up to its await: returns null at once without a refresh
\* token, else posts the token exchange.
RefreshAccessToken(s, h, ctx) ==
    LET s1 == Log(s, h, "refresh", NULL) IN
    IF s1.refresh = NULL
        THEN AfterRefresh(Log(s1, h, "refreshReturn", NULL), h, ctx)
        ELSE Log([s1 EXCEPT !.hs[h].pc = "awaitToken", !.hs[h].ctx = ctx],
                 h, "tokreq", s1.refresh)

\* Mutant: the request is issued without looking for an access token first.
CallGmailApiUnchecked(s, h) ==
    IssueRequest(s, h)

\* callGmailApi up to its first await.
CallGmailApi(s, h) ==
    IF s.access = NULL
        THEN RefreshAccessToken(s, h, "entry")
        ELSE IssueRequest(s, h)


(***************************************************************************)
(* The body of a message: findPlainTextPart of lines 275-292.  A body part *)
(* is a record of its mimeType, its body.data (<<>>: no body, no data or   *)
(* the empty string) and its parts.  body.data is base64 text, written as  *)
(* the sequence of the 6-bit values of its characters; a text is the       *)
(* sequence of its character codes.                                        *)
(***************************************************************************)
Part(mimeType, data, parts) ==
    [mimeType |-> mimeType, data |-> data, parts |-> parts]

\* The values findPlainTextPart returns: a string or null.
Text(chars) == [null |-> FALSE, chars |-> chars]
Null == [null |-> TRUE, chars |-> <<>>]

\* if (value): null and the empty string are falsy.
Truthy(value) == ~value.null /\ value.chars # <<>>

\* The base64 text of a sequence of bytes, without padding characters: the
\* service's side of body.data.
RECURSIVE Encode(_)
Encode(bytes) ==
    IF bytes = <<>> THEN <<>>
    ELSE IF Len(bytes) = 1
        THEN <<bytes[1] \div 4, (bytes[1] % 4) * 16>>
    ELSE IF Len(bytes) = 2
        THEN <<bytes[1] \div 4, (bytes[1] % 4) * 16 + bytes[2] \div 16,
               (bytes[2] % 16) * 4>>
    ELSE <<bytes[1] \div 4, (bytes[1] % 4) * 16 + bytes[2] \div 16,
           (bytes[2] % 16) * 4 + bytes[3] \div 64, bytes[3] % 64>>
         \o Encode(SubSeq(bytes, 4, Len(bytes)))

\* Buffer.from(data, "base64").toString("utf-8") for data whose bytes are
\* ASCII: four characters give three bytes, three give two, two give one, a
\* single character gives none.
RECURSIVE Decode(_)
Decode(data) ==
    IF Len(data) < 2 THEN <<>>
    ELSE IF Len(data) = 2
        THEN <<data[1] * 4 + data[2] \div 16>>
    ELSE IF Len(data) = 3
        THEN <<data[1] * 4 + data[2] \div 16,
               (data[2] % 16) * 16 + data[3] \div 4>>
    ELSE <<data[1] * 4 + data[2] \div 16,
           (data[2] % 16) * 16 + data[3] \div 4,
           (data[3] % 4) * 64 + data[4]>>
         \o Decode(SubSeq(data, 5, Len(data)))

\* part.mimeType === "text/plain" && part.body && part.body.data
HasPlainText(part) ==
    part.mimeType = "text/plain" /\ part.data # <<>>

RECURSIVE FindPlainTextPart(_, _)
RECURSIVE SearchParts(_, _, _)

\* Mutant: the parts of a part are searched before the part itself is looked at.
FindPlainTextPartChildrenFirst(part, path) ==
    LET r == SearchParts(part.parts, path, 1) IN
    IF Truthy(r.ret)
        THEN [ret |-> r.ret, visited |-> <<path>> \o r.visited]
        ELSE [ret |-> IF HasPlainText(part) THEN Text(Decode(part.data)) ELSE Null,
              visited |-> <<path>> \o r.visited]

\* The loop over part.parts from its k-th element on: the first truthy result
\* of a sub-part is returned, null when the loop runs out.
SearchParts(parts, path, k) ==
    IF k > Len(parts)
        THEN [ret |-> Null, visited |-> <<>>]
        ELSE LET foundBody == FindPlainTextPart(parts[k], Append(path, k)) IN
             IF Truthy(foundBody.ret)
                 THEN foundBody
                 ELSE LET rest == SearchParts(parts, path, k + 1) IN
                      [ret |-> rest.ret, visited |-> foundBody.visited \o rest.visited]

\* findPlainTextPart(part), with the parts it is called on (history; a part is
\* named by its path of indices from the root).
FindPlainTextPart(part, path) ==
    IF HasPlainText(part)
        THEN [ret |-> Text(Decode(part.data)), visited |-> <<path>>]
        ELSE LET r == SearchParts(part.parts, path, 1) IN
             [ret |-> r.ret, visited |-> <<path>> \o r.visited]

\* The body-part trees the message fetch is answered with: texts of one and
\* of two characters ("h", "hi"), body.data their base64 text or absent, up to
\* MaxParts parts per part and three levels of parts.
Texts == {<<104>>, <<104, 105>>}
Datas == {<<>>} \cup {Encode(text) : text \in Texts}
MimeTypes == {"text/plain", "multipart/alternative"}
Leaves == {Part(mt, d, <<>>) : mt \in MimeTypes, d \in Datas}
PartLists(S) == UNION {[1..n -> S] : n \in 1..MaxParts}
TwoLevels == {Part(mt, d, ps) : mt \in MimeTypes, d \in Datas, ps \in PartLists(Leaves)}
ThreeLevels ==
    {Part(mt, d, ps) : mt \in MimeTypes, d \in Datas,
                       ps \in {<<x>> : x \in TwoLevels}
                              \cup {<<x, y>> : x \in TwoLevels, y \in Leaves}
                              \cup {<<y, x>> : x \in TwoLevels, y \in Leaves}}
PartTrees == Leaves \cup TwoLevels \cup ThreeLevels

\* The message fetch asks for a partial response (lines 245-246):
\*   fields: "id,labelIds,snippet,payload(headers,parts(mimeType,filename,
\*            body(data),parts(mimeType,filename,body(data))))".
\* The service answers with the fields asked for and no others: of the payload
\* its parts (not its own mimeType or body), of each part its mimeType, its
\* body.data and its parts, of each of these its mimeType and body.data (not
\* its parts).  A mimeType that is left out reads as undefined ("").
FieldsOfInnerPart(part) == Part(part.mimeType, part.data, <<>>)
FieldsOfPart(part) ==
    Part(part.mimeType, part.data,
         [i \in DOMAIN part.parts |-> FieldsOfInnerPart(part.parts[i])])
Fields(tree) ==
    Part("", <<>>, [i \in DOMAIN tree.parts |-> FieldsOfPart(tree.parts[i])])

\* A multipart part around one part: multipart/mixed around
\* multipart/alternative, and so on.
Wrap(S) == {Part("multipart/alternative", <<>>, <<x>>) : x \in S}

\* The messages of the mailbox: the body-part trees of one and two levels and
\* those of two levels wrapped once and twice.
MessageTrees == Leaves \cup TwoLevels \cup Wrap(TwoLevels) \cup Wrap(Wrap(TwoLevels))

(***************************************************************************)
(* The marker extraction of lines 296-328.  A text is the sequence of its  *)
(* characters.                                                             *)
(***************************************************************************)
bodyPrefix == <<"s", "p", "a", "m", "-", "t", "e", "s", "t", "-">>

\* text.indexOf(word): the index, from 0, of the first occurrence, -1 if none.
RECURSIVE IndexOfFrom(_, _, _)
IndexOfFrom(text, word, i) ==
    IF i + Len(word) > Len(text) THEN -1
    ELSE IF SubSeq(text, i + 1, i + Len(word)) = word THEN i
    ELSE IndexOfFrom(text, word, i + 1)

\* Mutant: text.lastIndexOf(word).
LastIndexOf(text, word) ==
    LET at == {i \in 0..(Len(text) - Len(word)) :
                  SubSeq(text, i + 1, i + Len(word)) = word}
    IN  IF at = {} THEN -1 ELSE CHOOSE i \in at : \A j \in at : i >= j

IndexOf(text, word) == IndexOfFrom(text, word, 0)

\* text.substring(from)
Substring(text, from) == SubSeq(text, from + 1, Len(text))

\* The characters of the class [\s\n,.] that the texts of the model hold.
Separators == {" ", "\n", "\t", ",", "."}

\* text.split(/[\s\n,.]+/): the pieces of text between the runs of
\* separators; a text that begins (ends) with a separator has an empty first
\* (last) piece.
RECURSIVE Split(_)
RECURSIVE SkipSeparators(_)
SkipSeparators(text) ==
    IF text # <<>> /\ Head(text) \in Separators
        THEN SkipSeparators(Tail(text))
        ELSE text
Split(text) ==
    LET at == {i \in DOMAIN text : text[i] \in Separators} IN
    IF at = {} THEN <<text>>
    ELSE LET first == CHOOSE i \in at : \A j \in at : i <= j IN
         <<SubSeq(text, 1, first - 1)>>
         \o Split(SkipSeparators(SubSeq(text, first, Len(text))))

HexDigits == {"0", "1", "2", "3", "4", "5", "6", "7", "8", "9",
              "a", "b", "c", "d", "e", "f", "A", "B", "C", "D", "E", "F"}

\* The match of /^[0-9a-fA-F]{8}-[0-9a-fA-F]{4}-...-[0-9a-fA-F]{12}$/ from
\* left to right: a group of n hexadecimal digits, a "-" before the next
\* group, the end of the text after the last.
RECURSIVE MatchGroups(_, _)
MatchGroups(text, groups) ==
    LET n == Head(groups) IN
    /\ Len(text) >= n
    /\ \A i \in 1..n : text[i] \in HexDigits
    /\ IF Tail(groups) = <<>>
           THEN Len(text) = n
           ELSE /\ Len(text) > n
                /\ text[n + 1] = "-"
                /\ MatchGroups(SubSeq(text, n + 2, Len(text)), Tail(groups))

\* uuidRegex.test(potentialUuid)
UuidRegexTest(potentialUuid) == MatchGroups(potentialUuid, <<8, 4, 4, 4, 12>>)

\* No prefix found, or no text to look in.
NoMarker == [indexOfPrefix |-> -1, potentialUuid |-> <<>>, match |-> FALSE]

\* Lines 296-328: what the handler makes of plainTextBody.  match is the
\* branch "MATCH IN BODY".
MarkerOf(body) ==
    IF ~Truthy(body) THEN NoMarker
    ELSE LET indexOfPrefix == IndexOf(body.chars, bodyPrefix) IN
         IF indexOfPrefix = -1 THEN NoMarker
         ELSE LET potentialUuidAndRest ==
                      Substring(body.chars, indexOfPrefix + Len(bodyPrefix))
                  potentialUuid == Split(potentialUuidAndRest)[1]
              IN  [indexOfPrefix |-> indexOfPrefix,
                   potentialUuid |-> potentialUuid,
                   match |-> UuidRegexTest(potentialUuid)]

\* The texts the marker extraction is applied to: a head, the prefix or not,
\* a candidate, a tail.
Uuid == <<"0", "a", "1", "b", "2", "c", "3", "d", "-", "4", "e", "5", "f", "-", "6", "a", "7", "b", "-", "8", "c", "9", "d", "-", "0", "e", "1", "f", "2", "a", "3", "b", "4", "c", "5", "d">>
UuidUpper == <<"0", "A", "1", "B", "2", "C", "3", "D", "-", "4", "E", "5", "F", "-", "6", "a", "7", "b", "-", "8", "C", "9", "D", "-", "0", "E", "1", "F", "2", "A", "3", "B", "4", "C", "5", "D">>
Candidates ==
    {Uuid, UuidUpper,
     SubSeq(Uuid, 1, 35),                                   \* a digit short
     Uuid \o <<"0">>,                                       \* a digit long
     <<"g">> \o Tail(Uuid),                                 \* not hexadecimal
     SubSeq(Uuid, 1, 8) \o <<"0">> \o SubSeq(Uuid, 10, 36),  \* a "-" missing
     <<>>}
Heads ==
    {<<>>, <<"i", "d", ":", " ">>, <<"s", "p", "a", "m", "-">>,
     <<"S", "p", "a", "m", "-", "T", "e", "s", "t", "-">> \o Uuid \o <<" ">>}
\* A run of 1..MaxRun separators.
Runs == UNION {[1..n -> {" ", "\n", ","}] : n \in 1..MaxRun} \cup {<<".">>, <<"\t">>}
Tails ==
    {<<>>, <<";">>, <<"-", "0">>}
    \cup Runs
    \cup {r \o <<"x">> : r \in Runs}
    \cup {r \o bodyPrefix \o Uuid : r \in {<<" ">>, <<";">>}}
MarkerTexts ==
    {h \o bodyPrefix \o c \o t : h \in Heads, c \in Candidates, t \in Tails}
    \cup {h \o c \o t : h \in Heads, c \in {Uuid, <<>>}, t \in {<<>>, <<" ">>}}

\* The module-level state of index.js after start-up, no delivery taken yet.
InitStores ==
    /\ currentAccessToken = NULL
    /\ currentRefreshToken = NULL
    /\ lastProcessedHistoryIdByUser = [m \in Mailboxes |-> NULL]
    /\ hs = [h \in Handlers |-> IdleHandler]
    /\ serverHistoryId = [m \in Mailboxes |-> 1]
    /\ nextTok = 1
    /\ callLog = [h \in Handlers |-> <<>>]
    /\ lastRun = <<>>
    /\ rejected = {}

Init ==
    /\ InitStores
    /\ payload = Part("multipart/alternative", <<>>, <<>>)
    /\ plainTextBody = Text(<<>>)
    /\ visited = <<>>
    /\ message = Part("multipart/alternative", <<>>, <<>>)
    /\ marker = <<>>

\* The passport verify callback: the handshake delivers a new access token
\* and, when the provider sends one, a new refresh token.  The credentials of
\* one grant carry the grant's number; each grant's tokens are new.
Authenticate(withRefresh) ==
    /\ nextTok <= MaxTok
    /\ currentAccessToken' = nextTok
    /\ currentRefreshToken' = IF withRefresh THEN nextTok ELSE currentRefreshToken
    /\ nextTok' = nextTok + 1
    /\ callLog' = Resume.log
    /\ lastRun' = Resume.run
    /\ rejected' = Resume.rejected
    /\ hs' = Resume.hs
    /\ UNCHANGED <<lastProcessedHistoryIdByUser, serverHistoryId,
                   payload, plainTextBody, visited, message, marker>>

\* The mailbox changes at the service: a message is added and the mailbox's
\* historyId advances.
NewMail(m) ==
    /\ serverHistoryId[m] < MaxHistory
    /\ serverHistoryId' = [serverHistoryId EXCEPT ![m] = @ + 1]
    /\ callLog' = Resume.log
    /\ lastRun' = Resume.run
    /\ rejected' = Resume.rejected
    /\ hs' = Resume.hs
    /\ UNCHANGED <<currentAccessToken, currentRefreshToken,
                   lastProcessedHistoryIdByUser, nextTok,
                   payload, plainTextBody, visited, message, marker>>

\* History only: the end cursor of the run that handled the notification
\* (m, n) to the end before now, NULL if there is none.
FirstRun(m, n) ==
    LET runs == {hs[g].newHistoryIdToStore :
                    g \in {k \in Handlers : /\ hs[k].pc = "done"
                                             /\ hs[k].outcome = "finished"
                                             /\ hs[k].emailAddress = m
                                             /\ hs[k].notifiedHistoryId = n}}
    IN  IF runs = {} THEN NULL ELSE CHOOSE v \in runs : \A w \in runs : v >= w

\* Mutant: the handler sends no response.
AcknowledgeSkipped(s, h) == s

\* res.status(200).send("OK"), the handler's first statement.
Acknowledge(s, h) ==
    Note([s EXCEPT !.hs[h].acked = TRUE], h, "ack", 200)

\* POST /webhook/gmail up to its first network await: acknowledge, decode,
\* validate, pick the start cursor and call history.list.  Pub/Sub delivers at
\* least once, so n is any historyId the service has published for m.
Webhook(h, env, m, n) ==
    /\ hs[h].pc = "idle"
    /\ \A g \in Earlier[h] : hs[g].pc # "idle"
    /\ LET s0 == Acknowledge(Resume, h)
           start == StartHistoryId(s0.cursors[m], n)
       IN  Set(IF env # "ok"
                  THEN Finish(s0, h, env)
                  ELSE StartCall(Note([s0 EXCEPT !.hs[h].emailAddress = m,
                                                 !.hs[h].notifiedHistoryId = n,
                                                 !.hs[h].startHistoryId = start,
                                                 !.hs[h].again = FirstRun(m, n)],
                                      h, "start", start),
                                 h, "history", start))

\* The identity provider answers h's token exchange: with a new access token
\* (and a new refresh token when rotate), or with a failure.
TokenResponse(h, ok, rotate) ==
    /\ hs[h].pc = "awaitToken"
    /\ ok => nextTok <= MaxTok
    /\ ~ok => ~rotate
    /\ LET access_token  == nextTok
           refresh_token == IF rotate THEN nextTok ELSE NULL
           s0 == Resume
           s1 == IF ok
                    THEN [Overtake(RefreshSuccessStore(
                                       Log(Log(s0, h, "tokok", access_token),
                                           h, "tokrot", refresh_token),
                                       access_token, refresh_token),
                                   h, access_token)
                            EXCEPT !.nextTok = @ + 1]
                    ELSE RefreshFailureStore(Log(s0, h, "tokfail", hs[h].overtaken))
           s2 == [s1 EXCEPT !.hs[h].overtaken = NULL]
           ret == IF ok THEN s2.access ELSE NULL   \* return currentAccessToken / null
       IN  Set(AfterRefresh(Log(s2, h, "refreshReturn", ret), h, hs[h].ctx))

\* The mailbox service reads the mailbox for h's history.list request: the
\* response it will send carries the historyId the mailbox has now and lists
\* every change since startHistoryId `copies` times.
ServeHistory(h, copies) ==
    /\ hs[h].pc = "awaitData"
    /\ hs[h].kind = "history"
    /\ hs[h].served = NULL
    \* nothing to repeat when the mailbox has not changed
    /\ copies > 1 => hs[h].startHistoryId < serverHistoryId[hs[h].emailAddress]
    /\ hs' = [Resume.hs EXCEPT ![h].served = serverHistoryId[hs[h].emailAddress],
                               ![h].copies = copies]
    /\ callLog' = Resume.log
    /\ lastRun' = Resume.run
    /\ rejected' = Resume.rejected
    /\ UNCHANGED <<currentAccessToken, currentRefreshToken,
                   lastProcessedHistoryIdByUser, serverHistoryId, nextTok,
                   payload, plainTextBody, visited, message, marker>>

\* labelIds of a message resource: <<ids>>, or <<>> when the field is absent.
Labels(ids) == <<ids>>
NoLabels == <<>>

\* fullMessageDetails as the handler reads it.  plainTextBody stands for
\* the payload: it is what findPlainTextPart returns for it (null if nothing).
Details(body, labelIds) == [plainTextBody |-> body, labelIds |-> labelIds]

\* A message without plain text and without labels.
PlainDetails == Details(Null, NoLabels)

\* The messages of the mailbox: no plain text, a text with a well-formed
\* marker, a text with a malformed one; without labelIds or in INBOX and SPAM.
MessageDetails ==
    {Details(body, labelIds) :
        body \in {Null, Text(bodyPrefix \o Uuid), Text(bodyPrefix \o SubSeq(Uuid, 1, 35))},
        labelIds \in {NoLabels, Labels(<<"INBOX", "SPAM">>)}}

\* part_000, lines 119-151: the marker extraction and, on a match, the push of
\* {id: potentialUuid, labels: fullMessageDetails.labelIds || []}.
ProcessMessage(s, h, fullMessageDetails) ==
    LET found == MarkerOf(fullMessageDetails.plainTextBody) IN
    IF found.match
        THEN [s EXCEPT !.hs[h].matchedEmailsForLog =
                 Append(@, [id |-> found.potentialUuid,
                            labels |-> IF fullMessageDetails.labelIds = NoLabels
                                          THEN <<>>
                                          ELSE fullMessageDetails.labelIds[1]])]
        ELSE s

\* h's data request is answered with status.  A history.list response with
\* status 200 is the one the service prepared in ServeHistory; a message
\* response with status 200 carries fullMessageDetails.
DataResponse(h, status, fullMessageDetails) ==
    /\ hs[h].pc = "awaitData"
    /\ (status = 200 /\ hs[h].kind = "history") => hs[h].served # NULL
    /\ (status = 200 /\ hs[h].kind = "message") \/ fullMessageDetails = PlainDetails
    /\ LET l  == hs[h]
           s1 == Log(Resume, h, "resp", status)
           s2 == IF status = Unauthorized
                    THEN [s1 EXCEPT !.rejected = @ \cup {l.reqToken}]
                    ELSE s1
       IN  Set(IF status = 200
                  THEN LET s3 == EndCall(Log(s2, h, "return", l.reqToken), h, "ok") IN
                       IF l.kind = "history"
                          THEN NextMessage(
                                 [s3 EXCEPT
                                    !.hs[h].newHistoryIdToStore = l.served,
                                    !.hs[h].pending =
                                        AddedMessages(History(l.startHistoryId,
                                                              l.served, l.copies))],
                                 h)
                          ELSE NextMessage(
                                 ProcessMessage(
                                     Note(s3, h, "details", fullMessageDetails),
                                     h, fullMessageDetails),
                                 h)
                  ELSE IF ShouldRetry(status, l.retryCount)
                          THEN RefreshAccessToken(s2, h, "retry")
                          ELSE Throw(s2, h, status))

\* The steps of the program and its environment when the notifications are
\* about the mailboxes MB, a history.list response lists a change CP times,
\* the messages of the mailbox are MS and deliveries may overlap (overlap) or
\* come one after the other.
NextOn(MB, CP, MS, overlap) ==
    \/ \E withRefresh \in BOOLEAN : Authenticate(withRefresh)
    \/ \E m \in MB : NewMail(m)
    \/ \E h \in Handlers, env \in Envelopes, m \in MB :
          \E n \in 1..serverHistoryId[m] :
              /\ overlap \/ \A g \in Handlers : hs[g].pc \in {"idle", "done"}
              /\ Webhook(h, env, m, n)
    \/ \E h \in Handlers, ok \in BOOLEAN, rotate \in BOOLEAN : TokenResponse(h, ok, rotate)
    \/ \E h \in Handlers, copies \in CP : ServeHistory(h, copies)
    \/ \E h \in Handlers, status \in Statuses, fullMessageDetails \in MS :
          DataResponse(h, status, fullMessageDetails)

\* Overlapping deliveries; the changes of the mailbox add no message (the
\* historyId advances, history.list has nothing of type messageAdded to list).
Next == NextOn(Connected, {0}, {PlainDetails}, TRUE)

Spec == Init /\ [][Next]_vars

\* The account is connected: the handshake has stored the tokens of the first
\* grant.
InitConnected ==
    /\ currentAccessToken = 1
    /\ currentRefreshToken \in {NULL, 1}
    /\ lastProcessedHistoryIdByUser = [m \in Mailboxes |-> NULL]
    /\ hs = [h \in Handlers |-> IdleHandler]
    /\ serverHistoryId = [m \in Mailboxes |-> 1]
    /\ nextTok = 2
    /\ callLog = [h \in Handlers |-> <<>>]
    /\ lastRun = <<>>
    /\ rejected = {}
    /\ payload = Part("multipart/alternative", <<>>, <<>>)
    /\ plainTextBody = Text(<<>>)
    /\ visited = <<>>
    /\ message = Part("multipart/alternative", <<>>, <<>>)
    /\ marker = <<>>

\* Overlapping deliveries about both mailboxes, with or without an
\* emailAddress in the notification, once the account is connected.
NextFrame ==
    \/ \E m \in Mailboxes : NewMail(m)
    \/ \E h \in Handlers, env \in {"ok", "noemail"}, m \in Mailboxes :
          \E n \in 1..serverHistoryId[m] : Webhook(h, env, m, n)
    \/ \E h \in Handlers, ok \in BOOLEAN : TokenResponse(h, ok, FALSE)
    \/ \E h \in Handlers : ServeHistory(h, 0)
    \/ \E h \in Handlers, status \in Statuses : DataResponse(h, status, PlainDetails)

SpecFrame == InitConnected /\ [][NextFrame]_vars

\* One delivery at a time; every change adds a message, and a response may
\* list its changes twice, so that a delta of one change holds two added
\* messages.
NextBatch == NextOn(Connected, Copies, {PlainDetails}, FALSE)

SpecBatch == Init /\ [][NextBatch]_vars

\* Every network call of h is answered in the end, with a response or with a
\* failure: axios settles each promise the handler awaits.  This is weak
\* fairness of the two response actions, WF_vars(A) written out as
\* []<>~ENABLED <<A>>_vars \/ []<><<A>>_vars: a response to h is enabled
\* exactly while h awaits it (a failure can always come).
Answered(h) ==
    /\ \/ []<>(hs[h].pc # "awaitToken")
       \/ []<><<\E ok \in BOOLEAN, rotate \in BOOLEAN : TokenResponse(h, ok, rotate)>>_vars
    /\ \/ []<>(hs[h].pc # "awaitData")
       \/ []<><<\E status \in Statuses : DataResponse(h, status, PlainDetails)>>_vars

SpecLive == Init /\ [][NextBatch]_vars /\ \A h \in Handlers : Answered(h)

\* As NextBatch, and the messages differ in text and labels.
NextMatch == NextOn(Connected, Copies, MessageDetails, FALSE)

SpecMatch == Init /\ [][NextMatch]_vars

\* The body extraction on its own: any body-part tree as the payload of a
\* fetched message.
InitBody ==
    /\ InitStores
    /\ payload \in PartTrees
    /\ plainTextBody = Text(<<>>)
    /\ visited = <<>>
    /\ message = Part("multipart/alternative", <<>>, <<>>)
    /\ marker = <<>>

\* Lines 272-294: let plainTextBody = ""; plainTextBody = findPlainTextPart(payload).
ExtractPlainText ==
    /\ visited = <<>>
    /\ LET r == FindPlainTextPart(payload, <<>>) IN
          /\ plainTextBody' = r.ret
          /\ visited' = r.visited
    /\ UNCHANGED <<currentAccessToken, currentRefreshToken,
                   lastProcessedHistoryIdByUser, hs, serverHistoryId, nextTok,
                   callLog, lastRun, rejected, payload, message, marker>>

NextBody == ExtractPlainText

SpecBody == InitBody /\ [][NextBody]_vars

\* The fetch of one message: any message of the mailbox.
InitFetch ==
    /\ InitStores
    /\ message \in MessageTrees
    /\ payload = Part("multipart/alternative", <<>>, <<>>)
    /\ plainTextBody = Text(<<>>)
    /\ visited = <<>>
    /\ marker = <<>>

\* Lines 239-294: the message call returns the partial response for the fields
\* asked for, and findPlainTextPart searches its payload.
ResolveMessage ==
    /\ visited = <<>>
    /\ LET fullMessageDetails == [payload |-> Fields(message)]
           r == FindPlainTextPart(fullMessageDetails.payload, <<>>)
       IN  /\ payload' = fullMessageDetails.payload
           /\ plainTextBody' = r.ret
           /\ visited' = r.visited
    /\ UNCHANGED <<currentAccessToken, currentRefreshToken,
                   lastProcessedHistoryIdByUser, hs, serverHistoryId, nextTok,
                   callLog, lastRun, rejected, message, marker>>

NextFetch == ResolveMessage

SpecFetch == InitFetch /\ [][NextFetch]_vars

\* The marker extraction on its own: any text, or none, as plainTextBody.
InitMarker ==
    /\ InitStores
    /\ payload = Part("multipart/alternative", <<>>, <<>>)
    /\ message = Part("multipart/alternative", <<>>, <<>>)
    /\ visited = <<>>
    /\ plainTextBody \in {Text(text) : text \in MarkerTexts} \cup {Null}
    /\ marker = <<>>

\* Lines 296-333.
ExtractMarker ==
    /\ marker = <<>>
    /\ marker' = <<MarkerOf(plainTextBody)>>
    /\ UNCHANGED <<currentAccessToken, currentRefreshToken,
                   lastProcessedHistoryIdByUser, hs, serverHistoryId, nextTok,
                   callLog, lastRun, rejected, payload, plainTextBody, visited,
                   message>>

NextMarker == ExtractMarker

SpecMarker == InitMarker /\ [][NextMarker]_vars
(***************************************************************************)
(* The claims.  A call is a record of callLog; its trace lists the events  *)
(* of one callGmailApi(url, config) call made with retryCount 0:           *)
(*   call, refresh (refreshAccessToken invoked), tokreq (token exchange    *)
(*   posted), tokok / tokrot / tokfail (its response), refreshReturn,      *)
(*   req (data request issued, v its bearer token), resp (v its status),   *)
(*   return, throw.                                                        *)
(***************************************************************************)
Calls == UNION {{callLog[h][i] : i \in DOMAIN callLog[h]} : h \in Handlers}

Events(t, e) == SelectSeq(t, LAMBDA x : x.e = e)

Is(x, e, v) == x.e = e /\ x.v = v

\* C1: a logical call of callGmailApi issues at most two data requests (the
\* first and at most one retry), also when the retried request is answered 401.
C1_AtMostTwoRequests ==
    \A c \in Calls : Len(Events(c.trace, "req")) <= 2

\* A call whose first and retried request were both answered 401 and that ended.
C1_Witness ==
    \E c \in Calls :
        /\ c.result = "error"
        /\ Len(SelectSeq(c.trace, LAMBDA x : Is(x, "resp", Unauthorized))) = 2

C2_NoRefreshTokenWithoutAccessToken ==
    currentAccessToken = NULL => currentRefreshToken = NULL

C3_NoRequestAfterFailedRefresh ==
    \A c \in Calls : \A j \in DOMAIN c.trace :
        (/\ Is(c.trace[j], "refreshReturn", NULL)
         /\ \E i \in 1..(j - 1) : Is(c.trace[i], "resp", Unauthorized))
        => /\ j < Len(c.trace)
           /\ Is(c.trace[j + 1], "throw", Unauthorized)
           /\ \A k \in (j + 1)..Len(c.trace) : c.trace[k].e # "req"

\* The shape of a call that began with an access token, got 401, refreshed
\* with success and got 200 for the retried request.
RefreshedAndRetried(c) ==
    /\ c.result = "ok"
    /\ Len(c.trace) >= 4
    /\ c.trace[2].e = "req"
    /\ Is(c.trace[3], "resp", Unauthorized)
    /\ Events(c.trace, "tokok") # <<>>

\* C4: access token held but expired, first request answered 401, refresh
\* succeeds, retried request succeeds: the request is reissued exactly once,
\* with the access token the refresh obtained, and the call returns the
\* response of the retried request.
C4_RetryCarriesNewToken ==
    \A c \in Calls :
        RefreshedAndRetried(c) =>
            LET new == Events(c.trace, "tokok")[1].v
                reqs == Events(c.trace, "req")
            IN  /\ Len(reqs) = 2
                /\ reqs[2].v = new
                /\ reqs[1].v # new
                /\ Is(c.trace[Len(c.trace)], "return", new)

C4_Witness ==
    \E c \in Calls : RefreshedAndRetried(c)

\* C5: a call that begins with neither token held throws the "failed to
\* obtain access token" error at once: no data request, no token exchange, and
\* the credential store is as it was.
C5_NoCredentialFailsAtOnce ==
    \A i \in DOMAIN lastRun :
        (lastRun[i].e = "call" /\ lastRun[i].a = NULL /\ lastRun[i].r = NULL)
        => /\ i + 3 <= Len(lastRun)
           /\ Is(lastRun[i + 1], "refresh", NULL)
           /\ Is(lastRun[i + 2], "refreshReturn", NULL)
           /\ Is(lastRun[i + 3], "throw", NULL)
           /\ \A k \in (i + 1)..(i + 3) : lastRun[k].a = NULL /\ lastRun[k].r = NULL

C5_Witness ==
    \E i \in DOMAIN lastRun :
        lastRun[i].e = "call" /\ lastRun[i].a = NULL /\ lastRun[i].r = NULL

\* C6: a data response that is a failure other than 401 makes the call throw
\* that failure at once: no refresh, no retry, credential store unchanged.
C6_OtherFailurePropagates ==
    (lastRun # <<>> /\ lastRun[1].e = "resp" /\ lastRun[1].v \notin {200, Unauthorized})
    => /\ Len(lastRun) >= 2
       /\ Is(lastRun[2], "throw", lastRun[1].v)
       /\ lastRun[2].a = lastRun[1].a
       /\ lastRun[2].r = lastRun[1].r

C6_Witness ==
    /\ lastRun # <<>>
    /\ lastRun[1].e = "resp"
    /\ lastRun[1].v \notin {200, Unauthorized}
    /\ lastRun[1].a # NULL

\* C7: an access token the service has answered 401 to is dropped from the
\* credential store by the end of the call and is never the bearer token of a
\* later data request.
C7_RejectedTokenNeverReused ==
    \A i \in DOMAIN lastRun :
        lastRun[i].e \in {"req", "return", "throw"} => ~lastRun[i].stale

\* C8: when a token exchange fails, refreshAccessToken returns null and both
\* stored tokens are null afterwards.
C8_FailedRefreshClearsBoth ==
    \A i \in DOMAIN lastRun :
        lastRun[i].e = "tokfail"
        => /\ i < Len(lastRun)
           /\ Is(lastRun[i + 1], "refreshReturn", NULL)
           /\ lastRun[i + 1].a = NULL
           /\ lastRun[i + 1].r = NULL

\* A token exchange failed while both tokens were stored.
C8_Witness ==
    \E i \in DOMAIN lastRun :
        lastRun[i].e = "tokfail" /\ lastRun[i].a # NULL /\ lastRun[i].r # NULL

\* C9: a successful token exchange stores the returned access token; the
\* stored refresh token becomes the response's refresh token when it has one
\* and stays as it was when it has none.
C9_RefreshStoresTokens ==
    \A i \in DOMAIN lastRun :
        lastRun[i].e = "tokok"
        => /\ i + 2 <= Len(lastRun)
           /\ lastRun[i + 1].e = "tokrot"
           /\ lastRun[i + 2].e = "refreshReturn"
           /\ lastRun[i + 2].v = lastRun[i].v
           /\ lastRun[i + 2].a = lastRun[i].v
           /\ lastRun[i + 2].r = IF lastRun[i + 1].v # NULL
                                    THEN lastRun[i + 1].v
                                    ELSE lastRun[i].r

\* A token exchange succeeded without a new refresh token while one was stored.
C9_Witness ==
    \E i \in DOMAIN lastRun :
        /\ lastRun[i].e = "tokok"
        /\ lastRun[i].r # NULL
        /\ lastRun[i + 1].v = NULL

\* C10: no step replaces the cursor stored for a mailbox by one the service
\* issued earlier (historyIds are issued in increasing order).
C10_CursorNeverRolledBack ==
    [][\A m \in Mailboxes :
          lastProcessedHistoryIdByUser'[m] >= lastProcessedHistoryIdByUser[m]]_vars

\* The cursor table changes between the events i - 1 and i of the latest step.
CursorWrittenAt(i) == lastRun[i].c # lastRun[i - 1].c

\* C11: the cursor table is written only at the commit: the value stored for a
\* mailbox is the historyId of the history.list response the handler got for
\* that mailbox (never a value taken from the notification), it is stored when
\* the per-message loop is over and the handler ends with it, and no other
\* point of a step changes the table.
C11_CursorWrittenOnlyAtCommit ==
    /\ lastRun # <<>> => lastProcessedHistoryIdByUser = lastRun[Len(lastRun)].c
    /\ \A i \in 2..Len(lastRun) :
          CursorWrittenAt(i) =>
              LET e == lastRun[i]
                  l == hs[e.h]
              IN  /\ e.e = "commit"
                  /\ e.v # NULL
                  /\ e.v = l.newHistoryIdToStore
                  /\ e.v <= serverHistoryId[l.emailAddress]
                  /\ e.c = [lastRun[i - 1].c EXCEPT ![l.emailAddress] = e.v]
                  /\ l.pc = "done"
                  /\ l.outcome = "finished"
                  /\ i + 1 = Len(lastRun)
                  /\ lastRun[i + 1].e = "end"

\* A commit that stored the end cursor of a delta with an added message, the
\* notification having named another cursor.
C11_Witness ==
    \E i \in 2..Len(lastRun) :
        /\ CursorWrittenAt(i)
        /\ lastRun[i].v # hs[lastRun[i].h].notifiedHistoryId
        /\ hs[lastRun[i].h].startHistoryId < lastRun[i].v

\* The handler that ended in the latest step, if one did.
Ended == {lastRun[i].h : i \in {j \in DOMAIN lastRun : lastRun[j].e = "end"}}

\* C12: a handler whose history.list call returned ends as finished, and when
\* it ends the cursor stored for its mailbox is the historyId of that response,
\* whether its message calls failed or not; so after each of a sequence of such
\* notifications the stored cursor is the end cursor of the latest one.
C12_EndCursorStoredAtEnd ==
    \A h \in Ended :
        hs[h].newHistoryIdToStore # NULL
        => /\ hs[h].outcome = "finished"
           /\ lastProcessedHistoryIdByUser[hs[h].emailAddress] = hs[h].newHistoryIdToStore

\* A handler ends whose message call failed, after another handler had
\* stored an earlier end cursor.
C12_Witness ==
    \E h \in Ended :
        /\ hs[h].newHistoryIdToStore # NULL
        /\ \E i \in DOMAIN callLog[h] :
               callLog[h][i].kind = "message" /\ callLog[h][i].result = "error"
        /\ lastRun[1].c[hs[h].emailAddress] # NULL
        /\ lastRun[1].c[hs[h].emailAddress] < hs[h].newHistoryIdToStore

\* The outcomes of a handler that ended before its history.list call returned:
\* no message.data, data that does not parse, no emailAddress, a failed call.
AbortedOutcomes == {"nodata", "malformed", "noemail", "aborted"}

\* C13: a handler that ends at the decoding of the envelope, at the test of
\* emailAddress or at a failed history.list call leaves the cursor table as it
\* was when the delivery arrived or its response came in.
C13_AbortLeavesCursors ==
    \A h \in Ended :
        hs[h].outcome \in AbortedOutcomes
        => /\ lastProcessedHistoryIdByUser = lastRun[1].c
           /\ \A i \in DOMAIN lastRun : lastRun[i].c = lastRun[1].c

\* A history.list call fails while a cursor is stored for the mailbox that is
\* not the cursor of the notification.
C13_Witness ==
    \E h \in Ended :
        /\ hs[h].outcome = "aborted"
        /\ lastProcessedHistoryIdByUser[hs[h].emailAddress] # NULL
        /\ hs[h].notifiedHistoryId # lastProcessedHistoryIdByUser[hs[h].emailAddress]

\* The added messages of the history.list response h received, in the order
\* of the response.
Added(h) ==
    AddedMessages(History(hs[h].startHistoryId, hs[h].newHistoryIdToStore,
                          hs[h].copies))

\* C14: the per-message loop goes through the added messages of the response
\* one by one whatever the result of each message call: while it runs, the
\* calls begun are a prefix of the list and the rest is still to come; when the
\* handler has ended, a call was begun for every added message.
C14_EveryAddedMessageResolved ==
    \A h \in Handlers :
        hs[h].newHistoryIdToStore # NULL
        => IF hs[h].pc = "done"
              THEN hs[h].resolved = Len(Added(h))
              ELSE /\ hs[h].resolved \in 1..Len(Added(h))
                   /\ hs[h].kind = "message"
                   /\ hs[h].target = Added(h)[hs[h].resolved]
                   /\ hs[h].pending =
                          SubSeq(Added(h), hs[h].resolved + 1, Len(Added(h)))

\* The first message call of a delta throws and the call for the second
\* message is begun.
C14_Witness ==
    \E i \in 1..(Len(lastRun) - 1) :
        /\ lastRun[i].e = "throw"
        /\ lastRun[i + 1].e = "call"
        /\ hs[lastRun[i].h].resolved = 2

\* callGmailApi throws because no access token could be obtained: the throw
\* follows a refreshAccessToken that returned null (lines 145 and 168).
CredentialFailureAt(i) ==
    /\ i > 1
    /\ lastRun[i].e = "throw"
    /\ Is(lastRun[i - 1], "refreshReturn", NULL)

\* C15: when a call of a handler, the history.list call or a message call,
\* throws because no access token could be obtained, the handler ends there as
\* aborted: no further message call is begun and the cursor table stays as it
\* was.
C15_CredentialFailureAborts ==
    \A i \in DOMAIN lastRun :
        CredentialFailureAt(i)
        => /\ i < Len(lastRun)
           /\ Is(lastRun[i + 1], "end", "aborted")
           /\ lastProcessedHistoryIdByUser = lastRun[i].c

\* h received a history.list response that holds no history.
NoHistory(h) ==
    hs[h].newHistoryIdToStore # NULL /\ Added(h) = <<>>

\* C16 as the specification states it: a handler whose history.list response
\* holds no history ends as aborted with the cursor table as it was.
C16_NoHistoryAborts ==
    \A h \in Ended :
        NoHistory(h)
        => /\ hs[h].outcome = "aborted"
           /\ lastProcessedHistoryIdByUser = lastRun[1].c

\* C16, amended: a handler ends as aborted, with the cursor table as it was,
\* exactly when its history.list call threw (the way the service rejects a
\* startHistoryId it does not know any more); a response that holds no history
\* is a delta with no added message: no message call is begun, the handler
\* ends as finished and the historyId of the response is stored.
C16_NoHistoryIsEmptyDelta ==
    \A h \in Ended :
        /\ hs[h].outcome = "aborted"
           <=> (callLog[h] # <<>> /\ callLog[h][Len(callLog[h])].kind = "history"
                /\ callLog[h][Len(callLog[h])].result \in {"error", "nocred"})
        /\ hs[h].outcome = "aborted"
           => (hs[h].newHistoryIdToStore = NULL
               /\ lastProcessedHistoryIdByUser = lastRun[1].c)
        /\ NoHistory(h)
           => /\ hs[h].outcome = "finished"
              /\ hs[h].resolved = 0
              /\ Events(lastRun, "call") = <<>>
              /\ lastProcessedHistoryIdByUser[hs[h].emailAddress]
                     = hs[h].newHistoryIdToStore

\* A response without history arrives while no cursor is stored for the
\* mailbox, and its historyId is stored.
C16_Witness ==
    \E h \in Ended :
        /\ NoHistory(h)
        /\ lastRun[1].c[hs[h].emailAddress] = NULL
        /\ lastProcessedHistoryIdByUser[hs[h].emailAddress] # NULL

\* h handled a notification that had been handled to the end before its
\* delivery arrived, and the mailbox is as it was when the history.list call
\* of that first run was served.
Replay(h) ==
    /\ hs[h].again # NULL
    /\ serverHistoryId[hs[h].emailAddress] = hs[h].again

\* C17: when a notification that was handled to the end is delivered again
\* and the mailbox has not changed, the second handler ends in one of the ways
\* the handler provides for (finished, or aborted by a failed history.list
\* call), and the cursor table is then what the first handler left.
C17_ReplayKeepsCursors ==
    \A h \in Ended :
        Replay(h)
        => /\ hs[h].outcome \in {"finished", "aborted"}
           /\ lastProcessedHistoryIdByUser = lastRun[1].c
           /\ lastProcessedHistoryIdByUser[hs[h].emailAddress] = hs[h].again

\* The replay of a notification whose first run found a change ends as
\* finished and commits again.
C17_Witness ==
    \E h \in Ended :
        /\ Replay(h)
        /\ hs[h].outcome = "finished"
        /\ Events(lastRun, "commit") # <<>>
        /\ hs[h].notifiedHistoryId < hs[h].again

\* C18: a delivery is answered with status 200 before anything else is done
\* with it: the response is the first event of the step that takes the
\* delivery, before the envelope is looked at, the cursor is read or a call is
\* begun, and every handler has sent it however it ends.
C18_AcknowledgedFirst ==
    /\ \A h \in Handlers : hs[h].pc # "idle" => hs[h].acked
    /\ \A i \in DOMAIN lastRun :
          /\ lastRun[i].e = "ack" => (i = 1 /\ lastRun[i].v = 200)
          /\ lastRun[i].e = "start" => (i = 2 /\ Is(lastRun[1], "ack", 200))
    /\ \A h \in Ended :
          hs[h].outcome \in Envelopes
          => (Len(lastRun) = 2 /\ Is(lastRun[1], "ack", 200))

\* A delivery with data that does not parse has been acknowledged, after an
\* earlier one that got as far as a call.
C18_Witness ==
    \E h \in Ended : \E g \in Handlers \ {h} :
        /\ hs[h].outcome = "malformed"
        /\ hs[h].acked
        /\ hs[g].pc \in {"awaitData", "awaitToken", "done"}
        /\ hs[g].acked

\* C19: the startHistoryId of the history.list call is the cursor stored for
\* the mailbox of the notification when the delivery arrives, if one is stored,
\* and the historyId of the notification if none is.
C19_StartFromStoredCursor ==
    \A i \in DOMAIN lastRun :
        lastRun[i].e = "start"
        => LET h == lastRun[i].h
               stored == lastRun[1].c[hs[h].emailAddress]
               expected == IF stored # NULL THEN stored ELSE hs[h].notifiedHistoryId
           IN  /\ lastRun[i].v = expected
               /\ hs[h].startHistoryId = expected
               /\ callLog[h] # <<>>
               /\ callLog[h][1].kind = "history"
               /\ callLog[h][1].target = expected

\* A notification arrives that names another cursor than the one stored for
\* its mailbox.
C19_Witness ==
    \E i \in DOMAIN lastRun :
        /\ lastRun[i].e = "start"
        /\ lastRun[1].c[hs[lastRun[i].h].emailAddress] # NULL
        /\ lastRun[1].c[hs[lastRun[i].h].emailAddress]
               # hs[lastRun[i].h].notifiedHistoryId

\* The parts of a tree in depth-first pre-order, each with its path.
RECURSIVE PreOrder(_, _)
RECURSIVE PreOrderOfParts(_, _, _)
PreOrderOfParts(parts, path, k) ==
    IF k > Len(parts)
        THEN <<>>
        ELSE PreOrder(parts[k], Append(path, k)) \o PreOrderOfParts(parts, path, k + 1)
PreOrder(part, path) ==
    <<[path |-> path, part |-> part]>> \o PreOrderOfParts(part.parts, path, 1)

\* The positions in the pre-order of payload of the parts of type text/plain
\* that hold data.
Hits ==
    LET pre == PreOrder(payload, <<>>) IN
    {i \in DOMAIN pre : pre[i].part.mimeType = "text/plain" /\ pre[i].part.data # <<>>}

\* C20: findPlainTextPart returns the text whose base64 is the data of the
\* first part, in depth-first pre-order, that has type text/plain and holds
\* data; it is called on the parts up to that one, in pre-order, and on no
\* part after it; it returns null exactly when no part of the tree is of type
\* text/plain with data, after a call on every part.
C20_FirstPlainTextInPreOrder ==
    visited # <<>>
    => LET pre == PreOrder(payload, <<>>) IN
       IF Hits = {}
           THEN /\ plainTextBody = Null
                /\ visited = [i \in DOMAIN pre |-> pre[i].path]
           ELSE LET first == CHOOSE i \in Hits : \A j \in Hits : i <= j IN
                /\ ~plainTextBody.null
                /\ Encode(plainTextBody.chars) = pre[first].part.data
                /\ visited = [i \in 1..first |-> pre[i].path]

\* The first hit lies two levels below the root and a later part, never
\* called on, holds another text.
C20_Witness ==
    /\ visited # <<>>
    /\ Len(visited[Len(visited)]) = 2
    /\ \E i \in Hits : /\ i > Len(visited)
                       /\ Decode(PreOrder(payload, <<>>)[i].part.data)
                              # plainTextBody.chars

\* The paths, in a body-part tree, of the parts of type text/plain that hold
\* data.
PlainTextPaths(tree) ==
    LET pre == PreOrder(tree, <<>>) IN
    {pre[i].path : i \in {j \in DOMAIN pre : /\ pre[j].part.mimeType = "text/plain"
                                             /\ pre[j].part.data # <<>>}}

\* The part of a tree at a path.
RECURSIVE PartAt(_, _)
PartAt(tree, path) ==
    IF path = <<>> THEN tree ELSE PartAt(tree.parts[Head(path)], Tail(path))

\* The message has one plain-text part, three levels of parts or more below
\* the payload, and no part lies deeper.
DeepPlainText(tree) ==
    /\ Cardinality(PlainTextPaths(tree)) = 1
    /\ \A p \in PlainTextPaths(tree) :
           /\ Len(p) >= 3
           /\ \A i \in DOMAIN PreOrder(tree, <<>>) :
                  Len(PreOrder(tree, <<>>)[i].path) <= Len(p)

\* C21: for a message whose parts are nested three levels deep or deeper and
\* whose only plain-text part lies at the deepest level, the text the handler
\* extracts from the response of its message call is the text of that part.
C21_DeepPlainTextExtracted ==
    (visited # <<>> /\ DeepPlainText(message))
    => \A p \in PlainTextPaths(message) :
           /\ ~plainTextBody.null
           /\ Encode(plainTextBody.chars) = PartAt(message, p).data

\* The prefix stands in text at index i (from 0), character by character.
Occurs(text, i) ==
    /\ i \in 0..(Len(text) - Len(bodyPrefix))
    /\ \A k \in DOMAIN bodyPrefix : text[i + k] = bodyPrefix[k]

\* The characters of text after index `from` (from 0) up to the first
\* separator or the end of the text.
Token(text, from) ==
    LET stops == {e \in from..Len(text) : e = Len(text) \/ text[e + 1] \in Separators}
        end == CHOOSE e \in stops : \A f \in stops : e <= f
    IN  SubSeq(text, from + 1, end)

\* The 8-4-4-4-12 shape, position by position.
UuidShape(token) ==
    /\ Len(token) = 36
    /\ \A k \in 1..36 :
           IF k \in {9, 14, 19, 24} THEN token[k] = "-" ELSE token[k] \in HexDigits

\* C22: the marker extraction finds a match exactly when the text holds the
\* prefix and the token that follows its first occurrence, up to the first
\* separator, has the 8-4-4-4-12 hexadecimal shape; the candidate is that
\* token; later occurrences of the prefix play no part.
C22_MatchIffFirstTokenIsUuid ==
    marker # <<>>
    => LET text == plainTextBody.chars
           occurrences == {i \in 0..Len(text) : Occurs(text, i)}
       IN  IF plainTextBody.null \/ occurrences = {}
               THEN ~marker[1].match
               ELSE LET first == CHOOSE i \in occurrences : \A j \in occurrences : i <= j
                        token == Token(text, first + Len(bodyPrefix))
                    IN  /\ marker[1].indexOfPrefix = first
                        /\ marker[1].potentialUuid = token
                        /\ marker[1].match <=> UuidShape(token)

\* The token after the first occurrence is malformed, a later occurrence of
\* the prefix is followed by a well-formed one, and no match is found.
C22_Witness ==
    /\ marker # <<>>
    /\ ~marker[1].match
    /\ marker[1].indexOfPrefix >= 0
    /\ \E i \in 0..Len(plainTextBody.chars) :
           /\ i > marker[1].indexOfPrefix
           /\ Occurs(plainTextBody.chars, i)
           /\ UuidShape(Token(plainTextBody.chars, i + Len(bodyPrefix)))

\* The match list of the handler of the latest step when the step is over:
\* the list it reported if it did, the list it holds if not.
MatchListAfter ==
    LET reports == Events(lastRun, "report") IN
    IF reports # <<>> THEN reports[1].v ELSE hs[lastRun[1].h].matchedEmailsForLog

\* C23: the match list of a notification holds one record for each added
\* message that was resolved and whose text holds a valid marker, in the order
\* of the delta: a step that receives such a message appends the record of
\* its token (the prefix with the candidate) and of all its labels, every
\* other step leaves the list as it is, and the list is reported when the
\* loop is over.
C23_MatchListOfDelta ==
    lastRun # <<>>
    => LET details == Events(lastRun, "details")
           before == lastRun[1].m
       IN  /\ (\E i \in DOMAIN lastRun : Is(lastRun[i], "end", "finished"))
                 => Len(Events(lastRun, "report")) = 1
           /\ IF details # <<>> /\ MarkerOf(details[1].v.plainTextBody).match
                  THEN MatchListAfter =
                         Append(before,
                                [id |-> bodyPrefix
                                        \o MarkerOf(details[1].v.plainTextBody).potentialUuid,
                                 labels |-> IF details[1].v.labelIds = NoLabels
                                               THEN <<>>
                                               ELSE details[1].v.labelIds[1]])
                  ELSE MatchListAfter = before

\* The containers of the history.list response h received, entry by entry:
\* the message.id of each, NULL for a container without one.
RECURSIVE Containers(_)
Containers(history) ==
    IF history = <<>>
        THEN <<>>
        ELSE Containers(SubSeq(history, 1, Len(history) - 1))
             \o history[Len(history)].messagesAdded

ContainersOf(h) ==
    Containers(History(hs[h].startHistoryId, hs[h].newHistoryIdToStore, hs[h].copies))

\* C24: the messages of a delta are resolved one at a time in the order of the
\* response: a step sends at most one request, a message call begins only
\* where the call before it has returned or thrown and its message has been
\* dealt with (calls that fail for want of a credential follow each other in
\* one step), and a handler has one call in progress at most; the k-th message call is
\* for the k-th container that carries an id, an id listed again is resolved
\* again, and when the handler has ended there was one call per such container.
C24_OneAtATimeInDeltaOrder ==
    /\ Len(Events(lastRun, "req")) <= 1
    /\ \A i \in DOMAIN lastRun :
          lastRun[i].e = "call"
          => /\ i > 1
             /\ lastRun[i - 1].e \in {"start", "return", "details", "throw"}
    /\ \A h \in Handlers :
          /\ Len(SelectSeq(callLog[h], Pending)) <= 1
          /\ hs[h].newHistoryIdToStore # NULL
             => LET cs == ContainersOf(h)
                    withId == {p \in DOMAIN cs : cs[p] # NULL}
                IN  IF hs[h].pc = "done"
                       THEN hs[h].resolved = Cardinality(withId)
                       ELSE \E p \in withId :
                               /\ Cardinality({q \in withId : q <= p}) = hs[h].resolved
                               /\ hs[h].target = cs[p]
                               /\ hs[h].kind = "message"

\* The second message call of a handler is for the id its first one was for,
\* in a response that also holds a container without id.
C24_Witness ==
    \E h \in Handlers :
        /\ hs[h].pc = "awaitData"
        /\ hs[h].kind = "message"
        /\ hs[h].resolved = 2
        /\ LET cs == ContainersOf(h) IN
              /\ \E p \in DOMAIN cs : cs[p] = NULL
              /\ \E p, q \in DOMAIN cs :
                     p < q /\ cs[p] = hs[h].target /\ cs[q] = hs[h].target

\* C25: when every network call is answered, every handler that awaits one
\* ends (finished or aborted); on the way no call is retried more than once
\* and no more message calls are begun than the delta holds containers, so
\* the requests of a notification with k added messages are bounded by k.
C25_EveryHandlerEnds ==
    /\ [](\A h \in Handlers :
             /\ hs[h].retryCount \in {0, 1}
             /\ hs[h].newHistoryIdToStore # NULL
                => hs[h].resolved <= Len(ContainersOf(h)))
    /\ \A h \in Handlers :
          (hs[h].pc \in {"awaitData", "awaitToken"}) ~> (hs[h].pc = "done")

\* A handler ends after two message calls, the last of them answered 401 for
\* its retried request as well.
C25_Witness ==
    \E h \in Ended :
        /\ hs[h].outcome = "finished"
        /\ hs[h].resolved = 2
        /\ Is(lastRun[1], "resp", Unauthorized)
        /\ Is(lastRun[2], "throw", Unauthorized)

\* C26: a step of a handler leaves the cursor of every mailbox other than the
\* one its notification names as it was, at each point of the step and after
\* it, however the handler fares; a handler that found no emailAddress leaves
\* them all.
C26_OtherMailboxesUntouched ==
    lastRun # <<>>
    => \A m \in Mailboxes \ {hs[lastRun[1].h].emailAddress} :
           /\ lastProcessedHistoryIdByUser[m] = lastRun[1].c[m]
           /\ \A i \in DOMAIN lastRun : lastRun[i].c[m] = lastRun[1].c[m]

\* A handler stores a cursor for its mailbox while the other mailbox has
\* another cursor stored.
C26_Witness ==
    \E i \in 2..Len(lastRun) : \E m \in Mailboxes :
        /\ CursorWrittenAt(i)
        /\ hs[lastRun[i].h].emailAddress \in Mailboxes \ {m}
        /\ lastProcessedHistoryIdByUser[m] # NULL
        /\ lastProcessedHistoryIdByUser[m] # lastRun[i].v

\* C27: when the token exchange of a handler fails after the refresh of another
\* handler, running at the same time, has stored its credentials, the
\* credentials that refresh stored and that are still in the store stay there:
\* the failing refresh removes neither the access token nor the refresh token
\* of the other one.
C27_FailedRefreshSparesConcurrentGrant ==
    \A i \in 1..(Len(lastRun) - 1) :
        lastRun[i].e = "tokfail" /\ lastRun[i].v # NULL
        => /\ lastRun[i].a = lastRun[i].v => lastRun[i + 1].a = lastRun[i].v
           /\ lastRun[i].r = lastRun[i].v => lastRun[i + 1].r = lastRun[i].v
====
